---- MODULE Spec2Model ----
(***************************************************************************)
(* Model of packages/reactivity/src/reactive.ts: the four proxy factories, *)
(* the registries they share, toRaw / markRaw, and the base trap handlers  *)
(* (createGetter, createSetter, the array instrumentations).               *)
(*                                                                         *)
(* A JavaScript value is a record [t, v]: t is its type tag and v a tuple. *)
(* A proxy's identity is <<target, handler, serial>>: the two internal     *)
(* slots `new Proxy(target, handler)` fixes, and the serial number of the  *)
(* instance among the proxies built over that target with that handler.    *)
(* Every function of the source that has side effects is an operator from  *)
(* a store s (the record of all program state) to [ret, s].                *)
(***************************************************************************)
EXTENDS Integers, Sequences, FiniteSets, TLC

VARIABLES
    heap,                \* raw object id -> [kind, extensible, props]
    proxies,             \* the proxies `new Proxy` has returned so far
    reactiveMap,         \* the four registries (WeakMap target -> proxy)
    shallowReactiveMap,
    readonlyMap,
    shallowReadonlyMap,
    shouldTrack,         \* effect.ts: whether track() records anything
    trackStack,          \* effect.ts: the states pauseTracking() has saved
    effects,             \* raw array -> the proxy its dependent context pushes to
    tracked,             \* calls of track() that took effect in the last operation
    triggered,           \* calls of trigger() made by the last operation
    shims,               \* the mutator shims the last operation ran: entry and exit
    last                 \* the last operation: what was called, what it returned

vars == <<heap, proxies, reactiveMap, shallowReactiveMap, readonlyMap,
          shallowReadonlyMap, shouldTrack, trackStack, effects, tracked,
          triggered, shims, last>>

----------------------------------------------------------------------------
(* Bounds *)

MaxProxies == 3          \* proxies a behaviour may build
MaxUnwrap == 4           \* recursion depth allowed to toRaw
MaxNum == 1              \* numbers written are 1..MaxNum
MaxLen == 2              \* length of the arrays searched

----------------------------------------------------------------------------
(* Values *)

Undef == [t |-> "undefined", v |-> <<0>>]
NaN == [t |-> "NaN", v |-> <<0>>]
Num(n) == [t |-> "number", v |-> <<n>>]
Bool(b) == [t |-> "boolean", v |-> <<IF b THEN 1 ELSE 0>>]
Obj(i) == [t |-> "object", v |-> <<i>>]
Fn(name) == [t |-> "function", v |-> <<name>>]
Prx(target, handler, serial) == [t |-> "proxy", v |-> <<target, handler, serial>>]

ProxyTarget(p) == p.v[1]
ProxyHandler(p) == p.v[2]

\* JavaScript ToBoolean
Truthy(v) ==
    CASE v.t = "undefined" -> FALSE
      [] v.t = "NaN" -> FALSE
      [] v.t = "number" -> v.v[1] # 0
      [] v.t = "boolean" -> v.v[1] = 1
      [] OTHER -> TRUE

\* ReactiveFlags
SKIP == "__v_skip"
IS_REACTIVE == "__v_isReactive"
IS_READONLY == "__v_isReadonly"
IS_SHALLOW == "__v_isShallow"
RAW == "__v_raw"

\* TargetType
INVALID == 0
COMMON == 1
COLLECTION == 2

EmptyMap == [k \in {} |-> Undef]

Ret(v, s) == [ret |-> v, s |-> s]

\* the store the operators thread: the program state of the current step
Cur == [heap |-> heap, proxies |-> proxies, reactiveMap |-> reactiveMap,
        shallowReactiveMap |-> shallowReactiveMap, readonlyMap |-> readonlyMap,
        shallowReadonlyMap |-> shallowReadonlyMap,
        shouldTrack |-> shouldTrack, trackStack |-> trackStack,
        effects |-> effects, running |-> {},
        tracked |-> <<>>, triggered |-> <<>>, shims |-> <<>>]

Commit(s) ==
    /\ heap' = s.heap
    /\ proxies' = s.proxies
    /\ reactiveMap' = s.reactiveMap
    /\ shallowReactiveMap' = s.shallowReactiveMap
    /\ readonlyMap' = s.readonlyMap
    /\ shallowReadonlyMap' = s.shallowReadonlyMap
    /\ shouldTrack' = s.shouldTrack
    /\ trackStack' = s.trackStack
    /\ effects' = s.effects
    /\ tracked' = s.tracked
    /\ triggered' = s.triggered
    /\ shims' = s.shims

----------------------------------------------------------------------------
(* @vue/shared and the language *)

isObject(v) == v.t \in {"object", "proxy"}

isSymbol(key) == key \in {"@@iterator", "@@mine"}

builtInSymbols == {"@@iterator"}

isNonTrackableKeys(key) == key \in {"__proto__", "__v_isRef", "__isVue"}

IntegerKeys == {"0", "1", "2", "3", "4", "5"}

isIntegerKey(key) == key \in IntegerKeys

\* Number(key) of an integer key
Number(key) ==
    CASE key = "0" -> 0
      [] key = "1" -> 1
      [] key = "2" -> 2
      [] key = "3" -> 3
      [] key = "4" -> 4
      [] OTHER -> 5

\* String(i) of an index
IndexKey(i) ==
    CASE i = 0 -> "0"
      [] i = 1 -> "1"
      [] i = 2 -> "2"
      [] i = 3 -> "3"
      [] i = 4 -> "4"
      [] OTHER -> "5"

\* Object.is
hasChanged(value, oldValue) == value # oldValue

\* the object behind a chain of proxies: where the internal methods of a
\* proxy without the matching trap end up
RECURSIVE Backing(_)
Backing(v) == IF v.t = "proxy" THEN Backing(ProxyTarget(v)) ELSE v

isArray(s, v) ==
    LET b == Backing(v) IN b.t = "object" /\ s.heap[b.v[1]].kind = "Array"

isExtensible(s, v) ==
    LET b == Backing(v) IN b.t = "object" /\ s.heap[b.v[1]].extensible

hasOwn(s, v, key) ==
    LET b == Backing(v) IN b.t = "object" /\ key \in DOMAIN s.heap[b.v[1]].props

OwnGet(s, o, key) ==
    LET props == s.heap[o.v[1]].props
    IN  IF key \in DOMAIN props THEN props[key] ELSE Undef

WeakMapGet(map, key) == IF key \in DOMAIN map THEN map[key] ELSE Undef

\* effect.ts: a no-op while tracking is paused
track(s, target, type, key) ==
    IF s.shouldTrack
    THEN [s EXCEPT !.tracked = Append(@, [target |-> target, type |-> type, key |-> key])]
    ELSE s

\* effect.ts: the current state is saved, tracking is off
pauseTracking(s) ==
    [s EXCEPT !.trackStack = Append(@, s.shouldTrack), !.shouldTrack = FALSE]

\* pauseTracking paired with a restore that forgets what was saved
resetTracking_singleFlag(s) ==
    [s EXCEPT !.trackStack = IF @ = <<>> THEN @ ELSE SubSeq(@, 1, Len(@) - 1),
              !.shouldTrack = TRUE]

\* effect.ts: the state saved last is restored; tracking is on when none is
resetTracking(s) ==
    [s EXCEPT !.trackStack = IF @ = <<>> THEN @ ELSE SubSeq(@, 1, Len(@) - 1),
              !.shouldTrack = IF s.trackStack = <<>> THEN TRUE
                              ELSE s.trackStack[Len(s.trackStack)]]

\* effect.ts: the reader contexts that depend on the target are re-run
\* synchronously
RECURSIVE trigger(_, _, _, _, _, _)


----------------------------------------------------------------------------
(* Handler bundles *)

BaseHandlers == {"mutableHandlers", "shallowReactiveHandlers",
                 "readonlyHandlers", "shallowReadonlyHandlers"}

CollectionHandlers == {"mutableCollectionHandlers", "shallowCollectionHandlers",
                       "readonlyCollectionHandlers", "shallowReadonlyCollectionHandlers"}

HandlerIsReadonly(h) ==
    h \in {"readonlyHandlers", "shallowReadonlyHandlers",
           "readonlyCollectionHandlers", "shallowReadonlyCollectionHandlers"}

HandlerIsShallow(h) ==
    h \in {"shallowReactiveHandlers", "shallowReadonlyHandlers",
           "shallowCollectionHandlers", "shallowReadonlyCollectionHandlers"}

\* the registry createGetter compares the receiver against
GetterMap(isRO, shallow) ==
    IF isRO
    THEN IF shallow THEN "shallowReadonlyMap" ELSE "readonlyMap"
    ELSE IF shallow THEN "shallowReactiveMap" ELSE "reactiveMap"

arrayInstrumentations == {"includes", "indexOf", "lastIndexOf",
                          "push", "pop", "shift", "unshift", "splice"}

targetTypeMap(rawType) ==
    CASE rawType \in {"Object", "Array"} -> COMMON
      [] rawType \in {"Map", "Set", "WeakMap", "WeakSet"} -> COLLECTION
      [] OTHER -> INVALID

\* Object.prototype.toString tag: a proxy answers with its target's
toRawType(s, v) == s.heap[Backing(v).v[1]].kind

----------------------------------------------------------------------------
(* Property reads, the get traps and the factories *)

\* The({F(x) : x \in {e}}) is F(x) with x naming the value of e: the
\* expression e is evaluated once, as a const declaration evaluates its
\* initialiser once
The(S) == CHOOSE x \in S : TRUE

RECURSIVE Get(_, _, _, _), createGetter(_, _, _, _, _, _),
          collectionGet(_, _, _, _, _, _), createReactiveObject(_, _, _, _, _, _),
          getTargetType(_, _), reactive(_, _), readonly(_, _), isRef(_, _),
          isReadonly(_, _)

\* v[key] evaluated with the given receiver (Reflect.get(v, key, receiver))
Get(s, v, key, receiver) ==
    IF v.t = "proxy"
    THEN LET h == ProxyHandler(v)
         IN  IF h \in BaseHandlers
             THEN createGetter(HandlerIsReadonly(h), HandlerIsShallow(h),
                               s, ProxyTarget(v), key, receiver)
             ELSE collectionGet(HandlerIsReadonly(h), HandlerIsShallow(h),
                                s, ProxyTarget(v), key, receiver)
    ELSE IF v.t = "object" THEN Ret(OwnGet(s, v, key), s)
    ELSE Ret(Undef, s)

isRef(s, r) == Truthy(r) /\ Get(s, r, "__v_isRef", r).ret = Bool(TRUE)

isReadonly(s, value) == Truthy(value) /\ Truthy(Get(s, value, IS_READONLY, value).ret)

isShallow(s, value) == Truthy(value) /\ Truthy(Get(s, value, IS_SHALLOW, value).ret)

\* createGetter, unwrapping a ref held at an index of an array as well
createGetter_unwrapIndex(isRO, shallow, s, target, key, receiver) ==
    IF key = IS_REACTIVE THEN Ret(Bool(~isRO), s)
    ELSE IF key = IS_READONLY THEN Ret(Bool(isRO), s)
    ELSE IF key = IS_SHALLOW THEN Ret(Bool(shallow), s)
    ELSE IF key = RAW /\ receiver = WeakMapGet(s[GetterMap(isRO, shallow)], target)
    THEN Ret(target, s)
    ELSE
    LET targetIsArray == isArray(s, target) IN
    IF ~isRO /\ targetIsArray /\ key \in arrayInstrumentations
    THEN Ret(Fn(key), s)
    ELSE The({
        LET res == r.ret IN
        IF (IF isSymbol(key) THEN key \in builtInSymbols ELSE isNonTrackableKeys(key))
        THEN r
        ELSE
        LET s1 == IF ~isRO THEN track(r.s, target, "get", key) ELSE r.s IN
        IF shallow THEN Ret(res, s1)
        ELSE IF isRef(s1, res)
        THEN Get(s1, res, "value", res)
        ELSE IF isObject(res)
        THEN IF isRO THEN readonly(s1, res) ELSE reactive(s1, res)
        ELSE Ret(res, s1)
      : r \in {Get(s, target, key, receiver)}})

\* createGetter, tracking in the readonly getters as well
createGetter_trackReadonly(isRO, shallow, s, target, key, receiver) ==
    IF key = IS_REACTIVE THEN Ret(Bool(~isRO), s)
    ELSE IF key = IS_READONLY THEN Ret(Bool(isRO), s)
    ELSE IF key = IS_SHALLOW THEN Ret(Bool(shallow), s)
    ELSE IF key = RAW /\ receiver = WeakMapGet(s[GetterMap(isRO, shallow)], target)
    THEN Ret(target, s)
    ELSE
    LET targetIsArray == isArray(s, target) IN
    IF ~isRO /\ targetIsArray /\ key \in arrayInstrumentations
    THEN Ret(Fn(key), s)
    ELSE The({
        LET res == r.ret IN
        IF (IF isSymbol(key) THEN key \in builtInSymbols ELSE isNonTrackableKeys(key))
        THEN r
        ELSE
        LET s1 == track(r.s, target, "get", key) IN
        IF shallow THEN Ret(res, s1)
        ELSE IF isRef(s1, res)
        THEN IF targetIsArray /\ isIntegerKey(key)
             THEN Ret(res, s1)
             ELSE Get(s1, res, "value", res)
        ELSE IF isObject(res)
        THEN IF isRO THEN readonly(s1, res) ELSE reactive(s1, res)
        ELSE Ret(res, s1)
      : r \in {Get(s, target, key, receiver)}})

createGetter(isRO, shallow, s, target, key, receiver) ==
    IF key = IS_REACTIVE THEN Ret(Bool(~isRO), s)
    ELSE IF key = IS_READONLY THEN Ret(Bool(isRO), s)
    ELSE IF key = IS_SHALLOW THEN Ret(Bool(shallow), s)
    ELSE IF key = RAW /\ receiver = WeakMapGet(s[GetterMap(isRO, shallow)], target)
    THEN Ret(target, s)
    ELSE
    LET targetIsArray == isArray(s, target) IN
    IF ~isRO /\ targetIsArray /\ key \in arrayInstrumentations
    THEN Ret(Fn(key), s)
    ELSE The({
        LET res == r.ret IN
        IF (IF isSymbol(key) THEN key \in builtInSymbols ELSE isNonTrackableKeys(key))
        THEN r
        ELSE
        LET s1 == IF ~isRO THEN track(r.s, target, "get", key) ELSE r.s IN
        IF shallow THEN Ret(res, s1)
        ELSE IF isRef(s1, res)
        THEN IF targetIsArray /\ isIntegerKey(key)
             THEN Ret(res, s1)
             ELSE Get(s1, res, "value", res)
        ELSE IF isObject(res)
        THEN IF isRO THEN readonly(s1, res) ELSE reactive(s1, res)
        ELSE Ret(res, s1)
      : r \in {Get(s, target, key, receiver)}})

\* the get trap of the collection handler bundles, for the reserved flag
\* keys only
collectionGet(isRO, shallow, s, target, key, receiver) ==
    IF key = IS_REACTIVE THEN Ret(Bool(~isRO), s)
    ELSE IF key = IS_READONLY THEN Ret(Bool(isRO), s)
    ELSE IF key = IS_SHALLOW THEN Ret(Bool(shallow), s)
    ELSE IF key = RAW /\ receiver = WeakMapGet(s[GetterMap(isRO, shallow)], target)
    THEN Ret(target, s)
    ELSE Get(s, target, key, receiver)

\* getTargetType, without the test of the skip marker
getTargetType_noSkip(s, value) ==
    The({
        IF ~isExtensible(r.s, value)
        THEN Ret(INVALID, r.s)
        ELSE Ret(targetTypeMap(toRawType(r.s, value)), r.s)
      : r \in {Get(s, value, SKIP, value)}})

\* getTargetType, a non-extensible value classified by its kind
getTargetType_noExtensible(s, value) ==
    The({
        IF Truthy(r.ret)
        THEN Ret(INVALID, r.s)
        ELSE Ret(targetTypeMap(toRawType(r.s, value)), r.s)
      : r \in {Get(s, value, SKIP, value)}})

getTargetType(s, value) ==
    The({
        IF Truthy(r.ret) \/ ~isExtensible(r.s, value)
        THEN Ret(INVALID, r.s)
        ELSE Ret(targetTypeMap(toRawType(r.s, value)), r.s)
      : r \in {Get(s, value, SKIP, value)}})

\* the proxy of target with the handler bundle h, entered into proxyMap
NewProxy(s, target, h, proxyMap) ==
    LET serial == Cardinality({p \in s.proxies :
                      ProxyTarget(p) = target /\ ProxyHandler(p) = h}) + 1
        proxy == Prx(target, h, serial)
    IN  Ret(proxy, [s EXCEPT !.proxies = @ \cup {proxy},
                             ![proxyMap] = (target :> proxy) @@ @])

\* createReactiveObject, without the early return for a target that is already a proxy
createReactiveObject_noRawCheck(s, target, isRO, baseHandlers, collectionHandlers, proxyMap) ==
    IF ~isObject(target) THEN Ret(target, s)
    ELSE The({ The({
        IF FALSE
        THEN Ret(target, r2.s)
        ELSE
        LET existingProxy == WeakMapGet(r2.s[proxyMap], target) IN
        IF Truthy(existingProxy) THEN Ret(existingProxy, r2.s)
        ELSE The({
            IF tt.ret = INVALID THEN Ret(target, tt.s)
            ELSE NewProxy(tt.s, target,
                          IF tt.ret = COLLECTION THEN collectionHandlers ELSE baseHandlers,
                          proxyMap)
          : tt \in {getTargetType(r2.s, target)}})
      : r2 \in {IF Truthy(r1.ret) /\ isRO
                THEN Get(r1.s, target, IS_REACTIVE, target)
                ELSE Ret(Undef, r1.s)}})
      : r1 \in {Get(s, target, RAW, target)}})

\* createReactiveObject, without the registry lookup
createReactiveObject_noLookup(s, target, isRO, baseHandlers, collectionHandlers, proxyMap) ==
    IF ~isObject(target) THEN Ret(target, s)
    ELSE The({ The({
        IF Truthy(r1.ret) /\ ~(isRO /\ Truthy(r2.ret))
        THEN Ret(target, r2.s)
        ELSE
        LET existingProxy == WeakMapGet(r2.s[proxyMap], target) IN
        IF FALSE THEN Ret(existingProxy, r2.s)
        ELSE The({
            IF tt.ret = INVALID THEN Ret(target, tt.s)
            ELSE NewProxy(tt.s, target,
                          IF tt.ret = COLLECTION THEN collectionHandlers ELSE baseHandlers,
                          proxyMap)
          : tt \in {getTargetType(r2.s, target)}})
      : r2 \in {IF Truthy(r1.ret) /\ isRO
                THEN Get(r1.s, target, IS_REACTIVE, target)
                ELSE Ret(Undef, r1.s)}})
      : r1 \in {Get(s, target, RAW, target)}})

\* createReactiveObject, without the exception for readonly() of a reactive proxy
createReactiveObject_noException(s, target, isRO, baseHandlers, collectionHandlers, proxyMap) ==
    IF ~isObject(target) THEN Ret(target, s)
    ELSE The({ The({
        IF Truthy(r1.ret)
        THEN Ret(target, r2.s)
        ELSE
        LET existingProxy == WeakMapGet(r2.s[proxyMap], target) IN
        IF Truthy(existingProxy) THEN Ret(existingProxy, r2.s)
        ELSE The({
            IF tt.ret = INVALID THEN Ret(target, tt.s)
            ELSE NewProxy(tt.s, target,
                          IF tt.ret = COLLECTION THEN collectionHandlers ELSE baseHandlers,
                          proxyMap)
          : tt \in {getTargetType(r2.s, target)}})
      : r2 \in {IF Truthy(r1.ret) /\ isRO
                THEN Get(r1.s, target, IS_REACTIVE, target)
                ELSE Ret(Undef, r1.s)}})
      : r1 \in {Get(s, target, RAW, target)}})

\* r1 is target[RAW], r2 is target[IS_REACTIVE] (read only when the first
\* two conjuncts at line 228 hold), tt is getTargetType(target)
\* createReactiveObject, the exception for a reactive target made for every factory
createReactiveObject_noTargetCheck(s, target, isRO, baseHandlers, collectionHandlers, proxyMap) ==
    IF ~isObject(target) THEN Ret(target, s)
    ELSE The({ The({
        IF Truthy(r1.ret) /\ ~Truthy(r2.ret)
        THEN Ret(target, r2.s)
        ELSE
        LET existingProxy == WeakMapGet(r2.s[proxyMap], target) IN
        IF Truthy(existingProxy) THEN Ret(existingProxy, r2.s)
        ELSE The({
            IF tt.ret = INVALID THEN Ret(target, tt.s)
            ELSE NewProxy(tt.s, target,
                          IF tt.ret = COLLECTION THEN collectionHandlers ELSE baseHandlers,
                          proxyMap)
          : tt \in {getTargetType(r2.s, target)}})
      : r2 \in {IF Truthy(r1.ret)
                THEN Get(r1.s, target, IS_REACTIVE, target)
                ELSE Ret(Undef, r1.s)}})
      : r1 \in {Get(s, target, RAW, target)}})

createReactiveObject(s, target, isRO, baseHandlers, collectionHandlers, proxyMap) ==
    IF ~isObject(target) THEN Ret(target, s)
    ELSE The({ The({
        IF Truthy(r1.ret) /\ ~(isRO /\ Truthy(r2.ret))
        THEN Ret(target, r2.s)
        ELSE
        LET existingProxy == WeakMapGet(r2.s[proxyMap], target) IN
        IF Truthy(existingProxy) THEN Ret(existingProxy, r2.s)
        ELSE The({
            IF tt.ret = INVALID THEN Ret(target, tt.s)
            ELSE NewProxy(tt.s, target,
                          IF tt.ret = COLLECTION THEN collectionHandlers ELSE baseHandlers,
                          proxyMap)
          : tt \in {getTargetType(r2.s, target)}})
      : r2 \in {IF Truthy(r1.ret) /\ isRO
                THEN Get(r1.s, target, IS_REACTIVE, target)
                ELSE Ret(Undef, r1.s)}})
      : r1 \in {Get(s, target, RAW, target)}})

reactive(s, target) ==
    IF isReadonly(s, target) THEN Ret(target, s)
    ELSE createReactiveObject(s, target, FALSE, "mutableHandlers",
                              "mutableCollectionHandlers", "reactiveMap")

shallowReactive(s, target) ==
    createReactiveObject(s, target, FALSE, "shallowReactiveHandlers",
                         "shallowCollectionHandlers", "shallowReactiveMap")

readonly(s, target) ==
    createReactiveObject(s, target, TRUE, "readonlyHandlers",
                         "readonlyCollectionHandlers", "readonlyMap")

shallowReadonly(s, target) ==
    createReactiveObject(s, target, TRUE, "shallowReadonlyHandlers",
                         "shallowReadonlyCollectionHandlers", "shallowReadonlyMap")

\* toRaw gave up: more than MaxUnwrap nested calls
Diverged == [t |-> "diverged", v |-> <<0>>]

RECURSIVE toRawN(_, _, _)
\* toRaw, unwrapping one level only
toRawN_oneLevel(s, observed, fuel) ==
    IF fuel = 0 THEN Diverged
    ELSE The({IF Truthy(raw) THEN raw ELSE observed
              : raw \in {IF Truthy(observed) THEN Get(s, observed, RAW, observed).ret
                         ELSE observed}})

toRawN(s, observed, fuel) ==
    IF fuel = 0 THEN Diverged
    ELSE The({IF Truthy(raw) THEN toRawN(s, raw, fuel - 1) ELSE observed
              : raw \in {IF Truthy(observed) THEN Get(s, observed, RAW, observed).ret
                         ELSE observed}})

toRaw(s, observed) == toRawN(s, observed, MaxUnwrap)

\* def(value, SKIP, true): Object.defineProperty on the object behind value
Throws == [t |-> "throw", v |-> <<0>>]

markRaw(s, value) ==
    LET b == Backing(value) IN
    IF b.t # "object" \/ (~s.heap[b.v[1]].extensible /\ SKIP \notin DOMAIN s.heap[b.v[1]].props)
    THEN Ret(Throws, s)
    ELSE Ret(value, [s EXCEPT !.heap[b.v[1]].props = (SKIP :> Bool(TRUE)) @@ @])

----------------------------------------------------------------------------
(* Property writes and the set traps *)

\* the index keys of an array's props that a new length n cuts off
CutOff(props, n) == {k \in DOMAIN props : isIntegerKey(k) /\ Number(k) >= n}

\* [[Set]] of an ordinary object o reached with the given receiver: the
\* property is created or updated on the object behind the receiver
\* [[Set]], an index at or beyond the length leaving the length as it was
OrdinarySet_lengthNotKept(s, o, key, value, receiver) ==
    LET b == Backing(receiver) IN
    IF b.t # "object" THEN Ret(Bool(FALSE), s)
    ELSE
    LET obj == s.heap[b.v[1]]
        props == obj.props
    IN  IF key \notin DOMAIN props /\ ~obj.extensible THEN Ret(Bool(FALSE), s)
        ELSE IF obj.kind = "Array" /\ key = "length"
        THEN IF value.t # "number" THEN Ret(Throws, s)
             ELSE Ret(Bool(TRUE),
                      [s EXCEPT !.heap[b.v[1]].props =
                          [k \in (DOMAIN props) \ CutOff(props, value.v[1]) |->
                              IF k = "length" THEN value ELSE props[k]]])
        ELSE IF obj.kind = "Array" /\ isIntegerKey(key)
                /\ Number(key) >= props["length"].v[1]
        THEN Ret(Bool(TRUE),
                 [s EXCEPT !.heap[b.v[1]].props =
                     (key :> value) @@ props])
        ELSE Ret(Bool(TRUE),
                 [s EXCEPT !.heap[b.v[1]].props = (key :> value) @@ props])

OrdinarySet(s, o, key, value, receiver) ==
    LET b == Backing(receiver) IN
    IF b.t # "object" THEN Ret(Bool(FALSE), s)
    ELSE
    LET obj == s.heap[b.v[1]]
        props == obj.props
    IN  IF key \notin DOMAIN props /\ ~obj.extensible THEN Ret(Bool(FALSE), s)
        ELSE IF obj.kind = "Array" /\ key = "length"
        THEN IF value.t # "number" THEN Ret(Throws, s)
             ELSE Ret(Bool(TRUE),
                      [s EXCEPT !.heap[b.v[1]].props =
                          [k \in (DOMAIN props) \ CutOff(props, value.v[1]) |->
                              IF k = "length" THEN value ELSE props[k]]])
        ELSE IF obj.kind = "Array" /\ isIntegerKey(key)
                /\ Number(key) >= props["length"].v[1]
        THEN Ret(Bool(TRUE),
                 [s EXCEPT !.heap[b.v[1]].props =
                     (key :> value) @@ ("length" :> Num(Number(key) + 1)) @@ props])
        ELSE Ret(Bool(TRUE),
                 [s EXCEPT !.heap[b.v[1]].props = (key :> value) @@ props])

RECURSIVE Set(_, _, _, _, _), createSetter(_, _, _, _, _, _)

\* Reflect.set, the readonly bundles having no set trap
Set_noReadonlyTrap(s, v, key, value, receiver) ==
    IF v.t = "proxy"
    THEN LET h == ProxyHandler(v)
         IN  IF h \in {"mutableHandlers", "shallowReactiveHandlers"}
             THEN createSetter(HandlerIsShallow(h), s, ProxyTarget(v), key, value, receiver)
             ELSE Set(s, ProxyTarget(v), key, value, receiver)
    ELSE IF v.t = "object" THEN OrdinarySet(s, v, key, value, receiver)
    ELSE Ret(Bool(FALSE), s)

\* Reflect.set(v, key, value, receiver)
Set(s, v, key, value, receiver) ==
    IF v.t = "proxy"
    THEN LET h == ProxyHandler(v)
         IN  IF h \in {"mutableHandlers", "shallowReactiveHandlers"}
             THEN createSetter(HandlerIsShallow(h), s, ProxyTarget(v), key, value, receiver)
             ELSE IF h \in {"readonlyHandlers", "shallowReadonlyHandlers"}
             THEN Ret(Bool(TRUE), s)
             ELSE Set(s, ProxyTarget(v), key, value, receiver)
    ELSE IF v.t = "object" THEN OrdinarySet(s, v, key, value, receiver)
    ELSE Ret(Bool(FALSE), s)

\* createSetter, firing SET without comparing the new value with the old one
createSetter_alwaysSet(shallow, s, target, key, value, receiver) ==
    The({
        IF isReadonly(r0.s, r0.ret) /\ isRef(r0.s, r0.ret) /\ ~isRef(r0.s, value)
        THEN Ret(Bool(FALSE), r0.s)
        ELSE The({ The({
            IF ~shallow /\ ~isArray(r0.s, target) /\ isRef(r0.s, oldValue)
               /\ ~isRef(r0.s, val)
            THEN Ret(Bool(TRUE), Set(r0.s, oldValue, "value", val, oldValue).s)
            ELSE
            LET hadKey == IF isArray(r0.s, target) /\ isIntegerKey(key)
                          THEN Number(key) < Get(r0.s, target, "length", target).ret.v[1]
                          ELSE hasOwn(r0.s, target, key)
            IN  The({
                IF target = toRaw(result.s, receiver)
                THEN IF ~hadKey
                     THEN Ret(result.ret, trigger(result.s, target, "add", key, val, Undef))
                     ELSE IF TRUE
                     THEN Ret(result.ret, trigger(result.s, target, "set", key, val, oldValue))
                     ELSE result
                ELSE result
              : result \in {Set(r0.s, target, key, val, receiver)}})
          : oldValue \in {IF unwrap THEN toRaw(r0.s, r0.ret) ELSE r0.ret},
            val \in {IF unwrap THEN toRaw(r0.s, value) ELSE value}})
          : unwrap \in {~shallow /\ ~isShallow(r0.s, value) /\ ~isReadonly(r0.s, value)}})
      : r0 \in {Get(s, target, key, target)}})

\* createSetter, without the write into the box held at the key
createSetter_replaceBox(shallow, s, target, key, value, receiver) ==
    The({
        IF isReadonly(r0.s, r0.ret) /\ isRef(r0.s, r0.ret) /\ ~isRef(r0.s, value)
        THEN Ret(Bool(FALSE), r0.s)
        ELSE The({ The({
            IF FALSE
            THEN Ret(Bool(TRUE), Set(r0.s, oldValue, "value", val, oldValue).s)
            ELSE
            LET hadKey == IF isArray(r0.s, target) /\ isIntegerKey(key)
                          THEN Number(key) < Get(r0.s, target, "length", target).ret.v[1]
                          ELSE hasOwn(r0.s, target, key)
            IN  The({
                IF target = toRaw(result.s, receiver)
                THEN IF ~hadKey
                     THEN Ret(result.ret, trigger(result.s, target, "add", key, val, Undef))
                     ELSE IF hasChanged(val, oldValue)
                     THEN Ret(result.ret, trigger(result.s, target, "set", key, val, oldValue))
                     ELSE result
                ELSE result
              : result \in {Set(r0.s, target, key, val, receiver)}})
          : oldValue \in {IF unwrap THEN toRaw(r0.s, r0.ret) ELSE r0.ret},
            val \in {IF unwrap THEN toRaw(r0.s, value) ELSE value}})
          : unwrap \in {~shallow /\ ~isShallow(r0.s, value) /\ ~isReadonly(r0.s, value)}})
      : r0 \in {Get(s, target, key, target)}})

\* r0 is target[key]; unwrap is the test at lines 494-495; oldValue and val
\* are oldValue and value after lines 496-497; result is Reflect.set's
\* createSetter, the value stored as it was given
createSetter_noUnwrap(shallow, s, target, key, value, receiver) ==
    The({
        IF isReadonly(r0.s, r0.ret) /\ isRef(r0.s, r0.ret) /\ ~isRef(r0.s, value)
        THEN Ret(Bool(FALSE), r0.s)
        ELSE The({ The({
            IF ~shallow /\ ~isArray(r0.s, target) /\ isRef(r0.s, oldValue)
               /\ ~isRef(r0.s, val)
            THEN Ret(Bool(TRUE), Set(r0.s, oldValue, "value", val, oldValue).s)
            ELSE
            LET hadKey == IF isArray(r0.s, target) /\ isIntegerKey(key)
                          THEN Number(key) < Get(r0.s, target, "length", target).ret.v[1]
                          ELSE hasOwn(r0.s, target, key)
            IN  The({
                IF target = toRaw(result.s, receiver)
                THEN IF ~hadKey
                     THEN Ret(result.ret, trigger(result.s, target, "add", key, val, Undef))
                     ELSE IF hasChanged(val, oldValue)
                     THEN Ret(result.ret, trigger(result.s, target, "set", key, val, oldValue))
                     ELSE result
                ELSE result
              : result \in {Set(r0.s, target, key, val, receiver)}})
          : oldValue \in {IF unwrap THEN toRaw(r0.s, r0.ret) ELSE r0.ret},
            val \in {IF unwrap THEN toRaw(r0.s, value) ELSE value}})
          : unwrap \in {FALSE}})
      : r0 \in {Get(s, target, key, target)}})

\* createSetter, own-key membership for every key of every target
createSetter_hadKeyOwn(shallow, s, target, key, value, receiver) ==
    The({
        IF isReadonly(r0.s, r0.ret) /\ isRef(r0.s, r0.ret) /\ ~isRef(r0.s, value)
        THEN Ret(Bool(FALSE), r0.s)
        ELSE The({ The({
            IF ~shallow /\ ~isArray(r0.s, target) /\ isRef(r0.s, oldValue)
               /\ ~isRef(r0.s, val)
            THEN Ret(Bool(TRUE), Set(r0.s, oldValue, "value", val, oldValue).s)
            ELSE
            LET hadKey == hasOwn(r0.s, target, key)
            IN  The({
                IF target = toRaw(result.s, receiver)
                THEN IF ~hadKey
                     THEN Ret(result.ret, trigger(result.s, target, "add", key, val, Undef))
                     ELSE IF hasChanged(val, oldValue)
                     THEN Ret(result.ret, trigger(result.s, target, "set", key, val, oldValue))
                     ELSE result
                ELSE result
              : result \in {Set(r0.s, target, key, val, receiver)}})
          : oldValue \in {IF unwrap THEN toRaw(r0.s, r0.ret) ELSE r0.ret},
            val \in {IF unwrap THEN toRaw(r0.s, value) ELSE value}})
          : unwrap \in {~shallow /\ ~isShallow(r0.s, value) /\ ~isReadonly(r0.s, value)}})
      : r0 \in {Get(s, target, key, target)}})

createSetter(shallow, s, target, key, value, receiver) ==
    The({
        IF isReadonly(r0.s, r0.ret) /\ isRef(r0.s, r0.ret) /\ ~isRef(r0.s, value)
        THEN Ret(Bool(FALSE), r0.s)
        ELSE The({ The({
            IF ~shallow /\ ~isArray(r0.s, target) /\ isRef(r0.s, oldValue)
               /\ ~isRef(r0.s, val)
            THEN Ret(Bool(TRUE), Set(r0.s, oldValue, "value", val, oldValue).s)
            ELSE
            LET hadKey == IF isArray(r0.s, target) /\ isIntegerKey(key)
                          THEN Number(key) < Get(r0.s, target, "length", target).ret.v[1]
                          ELSE hasOwn(r0.s, target, key)
            IN  The({
                IF target = toRaw(result.s, receiver)
                THEN IF ~hadKey
                     THEN Ret(result.ret, trigger(result.s, target, "add", key, val, Undef))
                     ELSE IF hasChanged(val, oldValue)
                     THEN Ret(result.ret, trigger(result.s, target, "set", key, val, oldValue))
                     ELSE result
                ELSE result
              : result \in {Set(r0.s, target, key, val, receiver)}})
          : oldValue \in {IF unwrap THEN toRaw(r0.s, r0.ret) ELSE r0.ret},
            val \in {IF unwrap THEN toRaw(r0.s, value) ELSE value}})
          : unwrap \in {~shallow /\ ~isShallow(r0.s, value) /\ ~isReadonly(r0.s, value)}})
      : r0 \in {Get(s, target, key, target)}})

----------------------------------------------------------------------------
(* The delete and has traps *)

\* [[Delete]] of an ordinary object: the length of an array cannot be
\* deleted, an index leaves a hole
OrdinaryDelete(s, o, key) ==
    LET obj == s.heap[o.v[1]] IN
    IF key \notin DOMAIN obj.props THEN Ret(Bool(TRUE), s)
    ELSE IF obj.kind = "Array" /\ key = "length" THEN Ret(Bool(FALSE), s)
    ELSE Ret(Bool(TRUE),
             [s EXCEPT !.heap[o.v[1]].props = [k \in (DOMAIN @) \ {key} |-> @[k]]])

RECURSIVE Delete(_, _, _)

deleteProperty(s, target, key) ==
    LET hadKey == hasOwn(s, target, key) IN
    The({ The({
        IF result.ret = Bool(TRUE) /\ hadKey
        THEN Ret(result.ret, trigger(result.s, target, "delete", key, Undef, oldValue.ret))
        ELSE result
      : result \in {Delete(oldValue.s, target, key)}})
      : oldValue \in {Get(s, target, key, target)}})

\* Reflect.deleteProperty(v, key)
Delete(s, v, key) ==
    IF v.t = "proxy"
    THEN LET h == ProxyHandler(v)
         IN  IF h \in {"mutableHandlers", "shallowReactiveHandlers"}
             THEN deleteProperty(s, ProxyTarget(v), key)
             ELSE IF h \in {"readonlyHandlers", "shallowReadonlyHandlers"}
             THEN Ret(Bool(TRUE), s)
             ELSE Delete(s, ProxyTarget(v), key)
    ELSE IF v.t = "object" THEN OrdinaryDelete(s, v, key)
    ELSE Ret(Bool(TRUE), s)

RECURSIVE Has(_, _, _)

has(s, target, key) ==
    The({
        IF ~isSymbol(key) \/ key \notin builtInSymbols
        THEN Ret(result.ret, track(result.s, target, "has", key))
        ELSE result
      : result \in {Has(s, target, key)}})

\* Reflect.has(v, key), own keys only: the prototypes hold no key the model
\* asks for
Has(s, v, key) ==
    IF v.t = "proxy"
    THEN IF ProxyHandler(v) \in {"mutableHandlers", "shallowReactiveHandlers"}
         THEN has(s, ProxyTarget(v), key)
         ELSE Has(s, ProxyTarget(v), key)
    ELSE Ret(Bool(hasOwn(s, v, key)), s)

----------------------------------------------------------------------------
(* The length-altering array instrumentations: push, pop, shift, unshift   *)
(* and splice run the method of the language with the proxy as this, so    *)
(* that every step of the method goes through the traps of the proxy       *)

MutatorMethods == {"push", "pop", "shift", "unshift", "splice"}

SetStep(key, value) == [op |-> "set", from |-> key, key |-> key, value |-> value]

GetStep(key) == [op |-> "get", from |-> key, key |-> key, value |-> Undef]

TakeStep(key) == [op |-> "take", from |-> key, key |-> key, value |-> Undef]

DeleteStep(key) == [op |-> "delete", from |-> key, key |-> key, value |-> Undef]

MoveStep(from, to) == [op |-> "move", from |-> from, key |-> to, value |-> Undef]

\* Array.prototype.push: the items are set from len upwards, then the length
PushSteps(len, items) ==
    [i \in 1..Len(items) |-> SetStep(IndexKey(len + i - 1), items[i])]
    \o <<SetStep("length", Num(len + Len(items)))>>

\* Array.prototype.pop
PopSteps(len) ==
    IF len = 0 THEN <<SetStep("length", Num(0))>>
    ELSE <<GetStep(IndexKey(len - 1)), DeleteStep(IndexKey(len - 1)),
           SetStep("length", Num(len - 1))>>

\* Array.prototype.shift: each element moves one index down
ShiftSteps(len) ==
    IF len = 0 THEN <<SetStep("length", Num(0))>>
    ELSE <<GetStep("0")>>
         \o [k \in 1..(len - 1) |-> MoveStep(IndexKey(k), IndexKey(k - 1))]
         \o <<DeleteStep(IndexKey(len - 1)), SetStep("length", Num(len - 1))>>

\* Array.prototype.unshift: the elements move up from the last one, then the
\* items are set from index 0
UnshiftSteps(len, items) ==
    LET argCount == Len(items) IN
    (IF argCount > 0
     THEN [j \in 1..len |-> MoveStep(IndexKey(len - j), IndexKey(len - j + argCount))]
     ELSE <<>>)
    \o [j \in 1..argCount |-> SetStep(IndexKey(j - 1), items[j])]
    \o <<SetStep("length", Num(len + argCount))>>

Min(a, b) == IF a < b THEN a ELSE b

\* Array.prototype.splice(start, deleteCount, ...items), start and
\* deleteCount not negative
SpliceSteps(len, start, deleteCount, items) ==
    LET actualStart == Min(start, len)
        actualDeleteCount == Min(deleteCount, len - actualStart)
        itemCount == Len(items)
    IN  <<GetStep("constructor")>>
        \o [k \in 1..actualDeleteCount |-> TakeStep(IndexKey(actualStart + k - 1))]
        \o (IF itemCount < actualDeleteCount
            THEN [k \in 1..(len - actualDeleteCount - actualStart) |->
                     MoveStep(IndexKey(actualStart + k - 1 + actualDeleteCount),
                              IndexKey(actualStart + k - 1 + itemCount))]
                 \o [k \in 1..(actualDeleteCount - itemCount) |->
                        DeleteStep(IndexKey(len - k))]
            ELSE IF itemCount > actualDeleteCount
            THEN [k \in 1..(len - actualDeleteCount - actualStart) |->
                     MoveStep(IndexKey(len - k),
                              IndexKey(len - k + itemCount - actualDeleteCount))]
            ELSE <<>>)
        \o [j \in 1..itemCount |-> SetStep(IndexKey(actualStart + j - 1), items[j])]
        \o <<SetStep("length", Num(len - actualDeleteCount + itemCount))>>

\* the arguments of a call: the items, and for splice start and deleteCount
CallArgs(start, deleteCount, items) ==
    [start |-> start, deleteCount |-> deleteCount, items |-> items]

NativeSteps(key, len, args) ==
    CASE key = "push" -> PushSteps(len, args.items)
      [] key = "pop" -> PopSteps(len)
      [] key = "shift" -> ShiftSteps(len)
      [] key = "unshift" -> UnshiftSteps(len, args.items)
      [] OTHER -> SpliceSteps(len, args.start, args.deleteCount, args.items)

\* a set or a delete of the method that is refused is a TypeError
Strict(r) == IF r.ret = Bool(TRUE) THEN r ELSE Ret(Throws, r.s)

\* an index that is not there when splice collects the deleted elements
Hole == [t |-> "hole", v |-> <<0>>]

\* one step of the method on this
Step(s, this, st) ==
    CASE st.op = "get" -> Get(s, this, st.key, this)
      [] st.op = "take" ->
            The({ IF h.ret = Bool(TRUE) THEN Get(h.s, this, st.key, this)
                  ELSE Ret(Hole, h.s)
                : h \in {Has(s, this, st.key)}})
      [] st.op = "set" -> Strict(Set(s, this, st.key, st.value, this))
      [] st.op = "delete" -> Strict(Delete(s, this, st.key))
      [] OTHER ->
            The({ IF h.ret = Bool(TRUE)
                  THEN The({ Strict(Set(g.s, this, st.key, g.ret, this))
                           : g \in {Get(h.s, this, st.from, this)}})
                  ELSE Strict(Delete(h.s, this, st.key))
                : h \in {Has(s, this, st.from)}})

\* the steps in order, up to the first that throws; got collects what the
\* get and take steps read
RECURSIVE RunSteps(_, _, _, _)
RunSteps(s, this, steps, got) ==
    IF steps = <<>> THEN Ret([t |-> "got", v |-> got], s)
    ELSE The({ IF r.ret = Throws THEN r
               ELSE RunSteps(r.s, this, Tail(steps),
                             IF Head(steps).op \in {"get", "take"}
                             THEN Append(got, r.ret) ELSE got)
             : r \in {Step(s, this, Head(steps))}})

\* what the method returns: the new length, the element removed, or the
\* elements removed
NativeResult(key, len, args, got) ==
    CASE key \in {"push", "unshift"} -> Num(len + Len(args.items))
      [] key \in {"pop", "shift"} -> IF len = 0 THEN Undef ELSE got[1]
      [] OTHER -> [t |-> "array", v |-> Tail(got)]

TrackState(s) == IF s.shouldTrack THEN "on" ELSE "off"

\* the call of one instrumented method: what was called, the tracking state
\* on entry, and the tracking state on return or "throws"
ShimCall(key, this, entry, exit) ==
    [key |-> key, this |-> this, entry |-> entry, exit |-> exit]

\* pauseTracking(); res = toRaw(this)[key].apply(this, args);
\* resetTracking(); return res: a method that throws leaves the call before
\* resetTracking
mutatorInstrumentation(key, s, this, args) ==
    The({ The({
        IF res.ret = Throws
        THEN Ret(Throws, [res.s EXCEPT !.shims =
                             Append(@, ShimCall(key, this, TrackState(s), "throws"))])
        ELSE The({
            Ret(NativeResult(key, len.ret.v[1], args, res.ret.v),
                [s3 EXCEPT !.shims =
                    Append(@, ShimCall(key, this, TrackState(s), TrackState(s3)))])
          : s3 \in {resetTracking(res.s)}})
      : res \in {RunSteps(len.s, this, NativeSteps(key, len.ret.v[1], args), <<>>)}})
      : len \in {Get(pauseTracking(s), this, "length", this)}})

\* the target is logged; a reader context that depends on the target and is
\* not running already is re-run: it calls an instrumented method
trigger(s, target, type, key, newValue, oldValue) ==
    LET s1 == [s EXCEPT !.triggered =
                   Append(@, [target |-> target, type |-> type, key |-> key,
                              newValue |-> newValue, oldValue |-> oldValue])]
    IN  IF target \in DOMAIN s1.effects /\ target \notin s1.running
        THEN LET e == s1.effects[target]
             IN  [mutatorInstrumentation(e.key, [s1 EXCEPT !.running = @ \cup {target}],
                                         e.this, e.args).s
                     EXCEPT !.running = s1.running]
        ELSE s1

----------------------------------------------------------------------------
(* The identity-sensitive array instrumentations *)

\* === and SameValueZero on the values of the model (no -0)
StrictEquals(a, b) == a = b /\ a.t # "NaN"

SameValueZero(a, b) == a = b

ArrayLength(s, arr) == OwnGet(s, arr, "length").v[1]

\* Array.prototype.includes on a raw array: a hole reads as undefined
nativeIncludes(s, arr, v) ==
    Bool(\E i \in 0..(ArrayLength(s, arr) - 1) :
            SameValueZero(OwnGet(s, arr, IndexKey(i)), v))

\* the indexes of the raw array whose element is strictly equal to v
Matches(s, arr, v) ==
    {i \in 0..(ArrayLength(s, arr) - 1) :
        /\ IndexKey(i) \in DOMAIN s.heap[arr.v[1]].props
        /\ StrictEquals(OwnGet(s, arr, IndexKey(i)), v)}

nativeIndexOf(s, arr, v) ==
    LET m == Matches(s, arr, v)
    IN  IF m = {} THEN Num(-1) ELSE Num(CHOOSE i \in m : \A j \in m : i <= j)

nativeLastIndexOf(s, arr, v) ==
    LET m == Matches(s, arr, v)
    IN  IF m = {} THEN Num(-1) ELSE Num(CHOOSE i \in m : \A j \in m : i >= j)

\* arr[key](v) for the three identity-sensitive methods
ArrayMethod(key, s, arr, v) ==
    CASE key = "includes" -> nativeIncludes(s, arr, v)
      [] key = "indexOf" -> nativeIndexOf(s, arr, v)
      [] OTHER -> nativeLastIndexOf(s, arr, v)

\* the store after track(arr, GET, i + '') for every index below the length
\* read through the proxy
TrackIndexes(rl, arr) ==
    IF rl.s.shouldTrack
    THEN [rl.s EXCEPT !.tracked =
             @ \o [i \in 1..rl.ret.v[1] |->
                     [target |-> arr, type |-> "get", key |-> IndexKey(i - 1)]]]
    ELSE rl.s

\* the instrumentation, without the second run on the raw arguments
identityInstrumentation_noRetry(key, s, this, arg) ==
    The({ The({
        Ret(res, s1)
      : res \in {ArrayMethod(key, s1, arr, arg)}})
      : arr \in {toRaw(s, this)},
        s1 \in {TrackIndexes(Get(s, this, "length", this), toRaw(s, this))}})

\* instrumentations[key].call(this, arg), key one of includes, indexOf,
\* lastIndexOf
identityInstrumentation(key, s, this, arg) ==
    The({ The({
        IF res = Num(-1) \/ res = Bool(FALSE)
        THEN Ret(ArrayMethod(key, s1, arr, toRaw(s1, arg)), s1)
        ELSE Ret(res, s1)
      : res \in {ArrayMethod(key, s1, arr, arg)}})
      : arr \in {toRaw(s, this)},
        s1 \in {TrackIndexes(Get(s, this, "length", this), toRaw(s, this))}})

----------------------------------------------------------------------------
(* Factory calls: reactive, shallowReactive, readonly, shallowReadonly,    *)
(* toRaw and markRaw applied to raw values, to proxies and to a primitive  *)

Factories == {"reactive", "shallowReactive", "readonly", "shallowReadonly"}

NoCall == [op |-> "none", this |-> Undef, key |-> "", arg |-> Undef, ret |-> Undef]

Call(op, this, key, arg, ret) ==
    [op |-> op, this |-> this, key |-> key, arg |-> arg, ret |-> ret]

RawObjects == {Obj(i) : i \in DOMAIN heap}

\* what user code can hold and pass to an exported function
Args == RawObjects \cup proxies \cup {Num(1)}

\* {}, a Date and Object.preventExtensions({})
FactoryHeap ==
    (1 :> [kind |-> "Object", extensible |-> TRUE, props |-> [k \in {} |-> Undef]])
    @@ (2 :> [kind |-> "Date", extensible |-> TRUE, props |-> [k \in {} |-> Undef]])
    @@ (3 :> [kind |-> "Object", extensible |-> FALSE, props |-> [k \in {} |-> Undef]])

Init ==
    /\ heap = FactoryHeap
    /\ proxies = {}
    /\ reactiveMap = EmptyMap
    /\ shallowReactiveMap = EmptyMap
    /\ readonlyMap = EmptyMap
    /\ shallowReadonlyMap = EmptyMap
    /\ shouldTrack = TRUE
    /\ trackStack = <<>>
    /\ effects = EmptyMap
    /\ tracked = <<>>
    /\ triggered = <<>>
    /\ shims = <<>>
    /\ last = NoCall

Finish(op, this, key, arg, r) ==
    /\ Cardinality(r.s.proxies) <= MaxProxies
    /\ Commit(r.s)
    /\ last' = Call(op, this, key, arg, r.ret)

CallReactive ==
    \E target \in Args : Finish("reactive", Undef, "", target, reactive(Cur, target))

CallShallowReactive ==
    \E target \in Args :
        Finish("shallowReactive", Undef, "", target, shallowReactive(Cur, target))

CallReadonly ==
    \E target \in Args : Finish("readonly", Undef, "", target, readonly(Cur, target))

CallShallowReadonly ==
    \E target \in Args :
        Finish("shallowReadonly", Undef, "", target, shallowReadonly(Cur, target))

CallToRaw ==
    \E observed \in Args :
        Finish("toRaw", Undef, "", observed, Ret(toRaw(Cur, observed), Cur))

CallMarkRaw ==
    \E value \in RawObjects :
        Finish("markRaw", Undef, "", value, markRaw(Cur, value))

Next ==
    \/ CallReactive
    \/ CallShallowReactive
    \/ CallReadonly
    \/ CallShallowReadonly
    \/ CallToRaw
    \/ CallMarkRaw

Spec == Init /\ [][Next]_vars

----------------------------------------------------------------------------
(* Properties of the factories *)

IsWrapped(v) == v.t = "proxy"

\* the variant of a proxy: (readonly?, shallow?)
Variant(p) == <<HandlerIsReadonly(ProxyHandler(p)), HandlerIsShallow(ProxyHandler(p))>>

FactoryVariant(op) ==
    CASE op = "reactive" -> <<FALSE, FALSE>>
      [] op = "shallowReactive" -> <<FALSE, TRUE>>
      [] op = "readonly" -> <<TRUE, FALSE>>
      [] OTHER -> <<TRUE, TRUE>>

Registries == <<reactiveMap, shallowReactiveMap, readonlyMap, shallowReadonlyMap>>

\* the classifier accepts the raw value x
Wrappable(x) == x.t = "object" /\ getTargetType(Cur, x).ret # INVALID

SkipMarked(x) == x.t = "object" /\ Truthy(OwnGet(Cur, x, SKIP))

\* C1: a factory called on the instance it has just produced for a raw value
\* returns that same instance, and the call leaves the registries and the
\* set of proxies as they were.
C1_Idempotence ==
    [][(/\ last.op \in Factories
        /\ last.arg.t = "object"
        /\ IsWrapped(last.ret)
        /\ last'.op = last.op
        /\ last'.arg = last.ret)
       => (/\ last'.ret = last.ret
           /\ Registries' = Registries
           /\ proxies' = proxies)]_vars

\* a factory was called on a proxy of its own variant built over a raw value
C1_Witness ==
    /\ last.op \in Factories
    /\ IsWrapped(last.arg)
    /\ ProxyTarget(last.arg).t = "object"
    /\ Variant(last.arg) = FactoryVariant(last.op)
    /\ last.ret = last.arg

\* C2 as stated: two proxies of the same variant that unwrap to the same raw
\* value are the same proxy.
C2_SingleInstancePerRaw ==
    \A p, q \in proxies :
        (Variant(p) = Variant(q) /\ toRaw(Cur, p) = toRaw(Cur, q)) => p = q

\* C2 amended: there is at most one proxy per (target, variant), the target
\* being the value the proxy was built over, and every proxy is the registry
\* entry of its target; two proxies of the same mutable variant that unwrap
\* to the same raw value are the same proxy.
C2_SingleInstancePerTarget ==
    /\ \A p, q \in proxies :
        (Variant(p) = Variant(q) /\ ProxyTarget(p) = ProxyTarget(q)) => p = q
    /\ \A p \in proxies :
        WeakMapGet(Cur[GetterMap(Variant(p)[1], Variant(p)[2])], ProxyTarget(p)) = p
    /\ \A p, q \in proxies :
        (/\ Variant(p) = Variant(q)
         /\ ~Variant(p)[1]
         /\ toRaw(Cur, p) = toRaw(Cur, q)) => p = q

\* readonly(x) and readonly(reactive(x)) both exist, the second just returned
C2_Witness ==
    /\ last.op = "readonly"
    /\ IsWrapped(last.arg)
    /\ last.ret # last.arg
    /\ \E q \in proxies :
        /\ q # last.ret
        /\ Variant(q) = Variant(last.ret)
        /\ ProxyTarget(q) = ProxyTarget(last.arg)

\* reactive(x) for a raw x: a deep mutable proxy built over a raw value
IsReactiveOfRaw(p) ==
    IsWrapped(p) /\ Variant(p) = <<FALSE, FALSE>> /\ ProxyTarget(p).t = "object"

\* C3: readonly(reactive(x)), x a raw value the classifier accepts, is a
\* proxy y distinct from reactive(x) with toRaw(y) = x, and reactive(y) is y.
C3_ReadonlyAbsorption ==
    /\ (/\ last.op = "readonly"
        /\ IsReactiveOfRaw(last.arg)
        /\ Wrappable(ProxyTarget(last.arg)))
       => (/\ IsWrapped(last.ret)
           /\ last.ret # last.arg
           /\ toRaw(Cur, last.ret) = ProxyTarget(last.arg)
           /\ reactive(Cur, last.ret) = Ret(last.ret, Cur))
    /\ (/\ last.op = "reactive"
        /\ IsWrapped(last.arg)
        /\ Variant(last.arg) = <<TRUE, FALSE>>)
       => last.ret = last.arg

\* reactive was called on readonly(reactive(x)) and returned it
C3_Witness ==
    /\ last.op = "reactive"
    /\ IsWrapped(last.arg)
    /\ Variant(last.arg) = <<TRUE, FALSE>>
    /\ IsReactiveOfRaw(ProxyTarget(last.arg))
    /\ last.ret = last.arg

\* C4: toRaw of every raw value and of every proxy the factories built
\* terminates, is not a proxy, and is a fixed point of toRaw.
C4_RawStability ==
    \A w \in RawObjects \cup proxies :
        LET r == toRaw(Cur, w)
        IN  /\ r # Diverged
            /\ ~IsWrapped(r)
            /\ toRaw(Cur, r) = r

\* toRaw was called on a proxy built over a proxy and returned a raw object
C4_Witness ==
    /\ last.op = "toRaw"
    /\ IsWrapped(last.arg)
    /\ IsWrapped(ProxyTarget(last.arg))
    /\ last.ret.t = "object"

\* C5 as stated: reactive(x) of a skip-marked raw x is x.
C5_SkipMarker ==
    (last.op = "reactive" /\ SkipMarked(last.arg)) => last.ret = last.arg

\* C5 amended: reactive(x) of a skip-marked raw x that reactive had not
\* wrapped before the call is x and adds no registry entry; if reactive had
\* wrapped x (before the marking), the call returns that proxy.
C5_SkipMarkerUnwrapped ==
    [][(last'.op = "reactive" /\ SkipMarked(last'.arg))
       => IF last'.arg \in DOMAIN reactiveMap
          THEN last'.ret = reactiveMap[last'.arg]
          ELSE last'.ret = last'.arg /\ reactiveMap' = reactiveMap]_vars

\* reactive(x) returned x for a marked x that readonly had wrapped before
C5_Witness ==
    /\ last.op = "reactive"
    /\ SkipMarked(last.arg)
    /\ last.arg \in DOMAIN readonlyMap
    /\ last.ret = last.arg

----------------------------------------------------------------------------
(* Reads and writes through the proxies of a record: x = {a: 1}, a nested  *)
(* record y = {} and a boxed reference (a ref object holding 0)            *)

EmptyStore(h) ==
    [heap |-> h, proxies |-> {}, reactiveMap |-> EmptyMap,
     shallowReactiveMap |-> EmptyMap, readonlyMap |-> EmptyMap,
     shallowReadonlyMap |-> EmptyMap, shouldTrack |-> TRUE, trackStack |-> <<>>,
     effects |-> EmptyMap, running |-> {},
     tracked |-> <<>>, triggered |-> <<>>, shims |-> <<>>]

TrapHeap ==
    (1 :> [kind |-> "Object", extensible |-> TRUE, props |-> ("a" :> Num(1))])
    @@ (2 :> [kind |-> "Object", extensible |-> TRUE, props |-> [k \in {} |-> Undef]])
    @@ (3 :> [kind |-> "Object", extensible |-> TRUE,
              props |-> ("__v_isRef" :> Bool(TRUE)) @@ ("value" :> Num(0))])

\* reactive(x), shallowReactive(x), reactive(y) and readonly(box) are built
TrapStore ==
    LET s1 == reactive(EmptyStore(TrapHeap), Obj(1)).s
        s2 == shallowReactive(s1, Obj(1)).s
        s3 == reactive(s2, Obj(2)).s
    IN  readonly(s3, Obj(3)).s

Start(s) ==
    /\ heap = s.heap
    /\ proxies = s.proxies
    /\ reactiveMap = s.reactiveMap
    /\ shallowReactiveMap = s.shallowReactiveMap
    /\ readonlyMap = s.readonlyMap
    /\ shallowReadonlyMap = s.shallowReadonlyMap
    /\ shouldTrack = s.shouldTrack
    /\ trackStack = s.trackStack
    /\ effects = s.effects
    /\ tracked = <<>>
    /\ triggered = <<>>
    /\ shims = <<>>
    /\ last = NoCall

InitTrap == Start(TrapStore)

Done(op, this, key, arg, r) ==
    /\ Commit(r.s)
    /\ last' = Call(op, this, key, arg, r.ret)

FlagKeys == {IS_REACTIVE, IS_READONLY, IS_SHALLOW, RAW}

DataKeys == {"a", "b"}

ReadKeys == DataKeys \cup FlagKeys

\* the numbers, NaN, the nested record, the box and their wrappers
WriteValues ==
    {Num(n) : n \in 1..MaxNum} \cup {NaN, Obj(2), Obj(3)}
    \cup {p \in proxies : Backing(p) \in {Obj(2), Obj(3)}}

\* a receiver other than the proxy: an object that has the proxy on its
\* prototype chain, or the third argument of Reflect.get
Receivers(w, key) == IF key \in FlagKeys THEN {w, Obj(2)} ELSE {w}

\* Reflect.get(w, key, receiver), w a proxy of x or of the box: w[key] when
\* the receiver is w itself
Read ==
    \E w \in proxies, key \in ReadKeys :
        \E receiver \in Receivers(w, key) :
            /\ Backing(w) \in {Obj(1), Obj(3)}
            /\ Done("get", w, key, receiver, Get(Cur, w, key, receiver))

\* w[key] = value through the deep mutable proxy of x
Write ==
    \E w \in proxies, key \in DataKeys, value \in WriteValues :
        /\ ProxyTarget(w) = Obj(1)
        /\ ProxyHandler(w) = "mutableHandlers"
        /\ Done("set", w, key, value, Set(Cur, w, key, value, w))

NextTrap ==
    \/ Read
    \/ Write

SpecTrap == InitTrap /\ [][NextTrap]_vars


----------------------------------------------------------------------------
(* Properties of the traps *)

\* the step is a write w[key] = value through reactive(x), x a record
IsWriteStep ==
    /\ last'.op = "set"
    /\ IsReactiveOfRaw(last'.this)
    /\ ~isArray(Cur, last'.this)

TriggerCall(target, type, key, newValue, oldValue) ==
    [target |-> target, type |-> type, key |-> key,
     newValue |-> newValue, oldValue |-> oldValue]

\* C6 as stated: a write w.k = v through reactive(x) fires nothing when k is
\* an own key holding v, one trigger(x, SET, k, v, old) when k is an own key
\* holding another value, one trigger(x, ADD, k, v) when k is not an own key.
C6_WriteNotification ==
    [][IsWriteStep =>
        LET x == ProxyTarget(last'.this)
            k == last'.key
            v == last'.arg
            old == OwnGet(Cur, x, k)
        IN  IF hasOwn(Cur, x, k)
            THEN IF old = v
                 THEN triggered' = <<>>
                 ELSE triggered' = <<TriggerCall(x, "set", k, v, old)>>
            ELSE triggered' = <<TriggerCall(x, "add", k, v, Undef)>>]_vars

\* C6 amended: the same, for a write that is not diverted into a box (the
\* value held at k is not a boxed reference, or v is one), and with v and
\* the old value replaced by their raw forms unless v is a shallow or a
\* readonly wrapper.
C6_WriteNotificationRaw ==
    [][IsWriteStep =>
        LET x == ProxyTarget(last'.this)
            k == last'.key
            v == last'.arg
            old == OwnGet(Cur, x, k)
            asIs == isShallow(Cur, v) \/ isReadonly(Cur, v)
            v1 == IF asIs THEN v ELSE toRaw(Cur, v)
            old1 == IF asIs THEN old ELSE toRaw(Cur, old)
        IN  (~isRef(Cur, old) \/ isRef(Cur, v)) =>
                IF hasOwn(Cur, x, k)
                THEN IF old1 = v1
                     THEN triggered' = <<>>
                     ELSE triggered' = <<TriggerCall(x, "set", k, v1, old1)>>
                ELSE triggered' = <<TriggerCall(x, "add", k, v1, Undef)>>]_vars

\* a wrapper was written over another value: SET carries its raw form
C6_Witness ==
    /\ last.op = "set"
    /\ IsReactiveOfRaw(last.this)
    /\ IsWrapped(last.arg)
    /\ Len(triggered) = 1
    /\ triggered[1].type = "set"
    /\ triggered[1].newValue = toRaw(Cur, last.arg)
    /\ triggered[1].newValue # last.arg

\* b.value
Inner(s, b) == Get(s, b, "value", b).ret

\* the value reactive(x) holds at the key of the last operation
Held(s) == OwnGet(s, ProxyTarget(last.this), last.key)

\* C7 as stated: with a boxed reference b at key k of a record x, reading
\* w.k through reactive(x) returns b's inner value, and writing w.k = v, v
\* not a boxed reference, sets b's inner value to v and leaves b at x[k].
C7_BoxTransparency ==
    [][/\ (/\ last'.op = "get"
           /\ IsReactiveOfRaw(last'.this)
           /\ last'.arg = last'.this
           /\ ~isArray(Cur, last'.this)
           /\ isRef(Cur, OwnGet(Cur, ProxyTarget(last'.this), last'.key)))
          => last'.ret = Inner(Cur, OwnGet(Cur, ProxyTarget(last'.this), last'.key))
       /\ (/\ IsWriteStep
           /\ isRef(Cur, OwnGet(Cur, ProxyTarget(last'.this), last'.key))
           /\ ~isRef(Cur, last'.arg))
          => LET b == OwnGet(Cur, ProxyTarget(last'.this), last'.key)
             IN  /\ OwnGet(Cur', ProxyTarget(last'.this), last'.key) = b
                 /\ Inner(Cur', b) = last'.arg]_vars

\* C7 amended: the read as stated; the write, when b is not a readonly box,
\* assigns the raw form of v (v itself when v is a shallow or a readonly
\* wrapper) to b's inner slot, leaves b at x[k] and fires no trigger on x;
\* when b is a readonly box the write is rejected and changes nothing.
C7_BoxTransparencyRaw ==
    [][/\ (/\ last'.op = "get"
           /\ IsReactiveOfRaw(last'.this)
           /\ last'.arg = last'.this
           /\ ~isArray(Cur, last'.this)
           /\ isRef(Cur, OwnGet(Cur, ProxyTarget(last'.this), last'.key)))
          => last'.ret = Inner(Cur, OwnGet(Cur, ProxyTarget(last'.this), last'.key))
       /\ (/\ IsWriteStep
           /\ isRef(Cur, OwnGet(Cur, ProxyTarget(last'.this), last'.key))
           /\ ~isRef(Cur, last'.arg))
          => LET b == OwnGet(Cur, ProxyTarget(last'.this), last'.key)
                 v == last'.arg
                 v1 == IF isShallow(Cur, v) \/ isReadonly(Cur, v)
                       THEN v ELSE toRaw(Cur, v)
             IN  IF isReadonly(Cur, b)
                 THEN heap' = heap /\ last'.ret = Bool(FALSE) /\ triggered' = <<>>
                 ELSE /\ OwnGet(Cur', ProxyTarget(last'.this), last'.key) = b
                      /\ OwnGet(Cur', b, "value") = v1
                      /\ last'.ret = Bool(TRUE)
                      /\ triggered' = <<>>]_vars

\* a number was written through reactive(x) to a key that holds the box:
\* the box is still there and holds the number
C7_Witness ==
    /\ last.op = "set"
    /\ IsReactiveOfRaw(last.this)
    /\ last.arg.t = "number"
    /\ Held(Cur) = Obj(3)
    /\ OwnGet(Cur, Obj(3), "value") = last.arg
    /\ last.ret = Bool(TRUE)

\* a proxy with a mutable handler bundle built over a raw value
IsMutableOfRaw(p) == IsWrapped(p) /\ ~Variant(p)[1] /\ ProxyTarget(p).t = "object"

TrackCall(target, type, key) == [target |-> target, type |-> type, key |-> key]

\* C8: reading a data key k through a mutable proxy of a raw x calls
\* track(x, GET, k) exactly once; reading a reserved flag key on any proxy,
\* with any receiver, calls track not at all.
C8_ReadTracking ==
    /\ (last.op = "get" /\ IsMutableOfRaw(last.this) /\ last.key \in DataKeys)
       => Cardinality({i \in 1..Len(tracked) :
              tracked[i] = TrackCall(ProxyTarget(last.this), "get", last.key)}) = 1
    /\ (last.op = "get" /\ last.key \in FlagKeys) => tracked = <<>>


----------------------------------------------------------------------------
(* Searches in a wrapped array: the raw array holds up to MaxLen elements, *)
(* each a number, NaN, the record y, the box (a ref holding 1) or a proxy  *)
(* of y                                                                    *)

ArrayHeap(elems) ==
    (1 :> [kind |-> "Array", extensible |-> TRUE,
           props |-> [k \in {IndexKey(i - 1) : i \in 1..Len(elems)} |->
                         elems[Number(k) + 1]]
                     @@ ("length" :> Num(Len(elems)))])
    @@ (2 :> [kind |-> "Object", extensible |-> TRUE, props |-> [k \in {} |-> Undef]])
    @@ (3 :> [kind |-> "Object", extensible |-> TRUE,
              props |-> ("__v_isRef" :> Bool(TRUE)) @@ ("value" :> Num(1))])

\* reactive(y) and readonly(y): the wrapped forms an element can have
WrappedY == {Prx(Obj(2), "mutableHandlers", 1), Prx(Obj(2), "readonlyHandlers", 1)}

ElemValues == {Num(1), Num(2), NaN, Obj(2), Obj(3)} \cup WrappedY

\* the array was built around its elements, then reactive(y), readonly(y)
\* and reactive(arr) were called
ArrayStore(elems) ==
    LET s1 == reactive(EmptyStore(ArrayHeap(elems)), Obj(2)).s
        s2 == readonly(s1, Obj(2)).s
    IN  reactive(s2, Obj(1)).s

InitArray ==
    \E n \in 0..MaxLen :
        \E elems \in [1..n -> ElemValues] : Start(ArrayStore(elems))

IdentityMethods == {"includes", "indexOf", "lastIndexOf"}

\* w.includes(v), w.indexOf(v), w.lastIndexOf(v): the get trap resolves the
\* method, then the method runs with w as this
Search ==
    \E w \in proxies, key \in IdentityMethods, v \in ElemValues :
        LET g == Get(Cur, w, key, w)
        IN  /\ g.ret = Fn(key)
            /\ Done(key, w, "", v, identityInstrumentation(key, g.s, w, v))

\* w[i]
ReadIndex ==
    \E w \in proxies, i \in 0..MaxLen :
        /\ isArray(Cur, w)
        /\ Done("get", w, IndexKey(i), w, Get(Cur, w, IndexKey(i), w))

NextArray ==
    \/ Search
    \/ ReadIndex

SpecArray == InitArray /\ [][NextArray]_vars

----------------------------------------------------------------------------
(* Properties of the array searches *)

\* the last operation is a search through a mutable proxy of the raw array
IsSearch ==
    /\ last.op \in IdentityMethods
    /\ IsMutableOfRaw(last.this)
    /\ isArray(Cur, last.this)

\* the indexes at which the raw array holds an element whose raw form is
\* identical to the raw form of v
RawMatches(v) ==
    {i \in 0..(ArrayLength(Cur, Obj(1)) - 1) :
        StrictEquals(toRaw(Cur, OwnGet(Cur, Obj(1), IndexKey(i))), toRaw(Cur, v))}

\* the indexes at which the raw array holds v itself or the raw form of v
DirectMatches(v) ==
    {i \in 0..(ArrayLength(Cur, Obj(1)) - 1) :
        \/ StrictEquals(OwnGet(Cur, Obj(1), IndexKey(i)), v)
        \/ StrictEquals(OwnGet(Cur, Obj(1), IndexKey(i)), toRaw(Cur, v))}

Found(matches) ==
    IF last.op = "includes"
    THEN last.ret = Bool(TRUE)
    ELSE last.ret.t = "number" /\ last.ret.v[1] \in matches

\* C9 as stated: a search for v through a mutable proxy of the array finds
\* an element e whenever toRaw(e) is identical to toRaw(v).
C9_IdentitySearch ==
    (IsSearch /\ RawMatches(last.arg) # {}) => Found(RawMatches(last.arg))

\* C9 amended: the search finds an element e whenever e is identical to v
\* or to toRaw(v), i.e. when e is stored raw and v is e or a wrapper of e,
\* or when e is stored wrapped and v is that same wrapper.
C9_IdentitySearchOfStoredValue ==
    (IsSearch /\ DirectMatches(last.arg) # {}) => Found(DirectMatches(last.arg))

\* a wrapper of y was searched in an array that holds y raw and no wrapper
C9_Witness ==
    /\ IsSearch
    /\ IsWrapped(last.arg)
    /\ DirectMatches(last.arg) # {}
    /\ \A i \in 0..(ArrayLength(Cur, Obj(1)) - 1) :
          ~IsWrapped(OwnGet(Cur, Obj(1), IndexKey(i)))
    /\ Found(DirectMatches(last.arg))

\* the raw array is [box, 2], the box holding 1
IsBoxAndTwo ==
    /\ ArrayLength(Cur, Obj(1)) = 2
    /\ OwnGet(Cur, Obj(1), "0") = Obj(3)
    /\ OwnGet(Cur, Obj(1), "1") = Num(2)
    /\ OwnGet(Cur, Obj(3), "value") = Num(1)

IsReactiveArray(w) == IsReactiveOfRaw(w) /\ isArray(Cur, w)

\* C10 as stated: with w = reactive([box(1), 2]), w.includes(1) is true.
C10_IncludesBoxedValue ==
    (last.op = "includes" /\ IsReactiveArray(last.this) /\ IsBoxAndTwo
     /\ last.arg = Num(1)) => last.ret = Bool(TRUE)

\* C10 amended: w.includes(1) is false, the box being no wrapper that toRaw
\* unwraps; w.includes(w[0]) is true, w[0] being the box itself.
C10_IncludesBoxItself ==
    (last.op = "includes" /\ IsReactiveArray(last.this) /\ IsBoxAndTwo)
    => /\ last.arg = Num(1) => last.ret = Bool(FALSE)
       /\ last.arg = Get(Cur, last.this, "0", last.this).ret => last.ret = Bool(TRUE)

\* includes(1) was called on reactive([box(1), 2])
C10_Witness ==
    /\ last.op = "includes"
    /\ IsReactiveArray(last.this)
    /\ IsBoxAndTwo
    /\ last.arg = Num(1)
    /\ last.ret = Bool(FALSE)

----------------------------------------------------------------------------
(* Reads, writes and deletes through the readonly wrappers of a record     *)
(* x = {a: 1}, next to writes through its mutable wrapper; y = {} is a     *)
(* record to nest                                                          *)

ReadonlyHeap ==
    (1 :> [kind |-> "Object", extensible |-> TRUE, props |-> ("a" :> Num(1))])
    @@ (2 :> [kind |-> "Object", extensible |-> TRUE, props |-> [k \in {} |-> Undef]])

\* readonly(x), shallowReadonly(x), reactive(x), readonly(reactive(x)) and
\* shallowReadonly(reactive(x)) are built
ReadonlyStore ==
    LET s1 == readonly(EmptyStore(ReadonlyHeap), Obj(1)).s
        s2 == shallowReadonly(s1, Obj(1)).s
        rx == reactive(s2, Obj(1))
        s4 == readonly(rx.s, rx.ret).s
    IN  shallowReadonly(s4, rx.ret).s

InitReadonly == Start(ReadonlyStore)

IsReadonlyWrapper(w) ==
    w.t = "proxy" /\ ProxyHandler(w) \in {"readonlyHandlers", "shallowReadonlyHandlers"}

IsMutableWrapper(w) ==
    w.t = "proxy" /\ ProxyHandler(w) \in {"mutableHandlers", "shallowReactiveHandlers"}

ReadonlyValues == {Num(n) : n \in 1..MaxNum} \cup {Obj(2)}

\* Reflect.get(w, key, receiver) on a readonly wrapper
ReadReadonly ==
    \E w \in proxies, key \in ReadKeys :
        \E receiver \in Receivers(w, key) :
            /\ IsReadonlyWrapper(w)
            /\ Done("get", w, key, receiver, Get(Cur, w, key, receiver))

\* w[key] = value on a readonly wrapper
WriteReadonly ==
    \E w \in proxies, key \in DataKeys, value \in ReadonlyValues :
        /\ IsReadonlyWrapper(w)
        /\ Done("set", w, key, value, Set(Cur, w, key, value, w))

\* delete w[key] on a readonly wrapper
DeleteReadonly ==
    \E w \in proxies, key \in DataKeys :
        /\ IsReadonlyWrapper(w)
        /\ Done("delete", w, key, Undef, Delete(Cur, w, key))

\* w[key] = value on the mutable wrapper of x
WriteReactive ==
    \E w \in proxies, key \in DataKeys, value \in ReadonlyValues :
        /\ IsMutableWrapper(w)
        /\ ProxyTarget(w) = Obj(1)
        /\ Done("set", w, key, value, Set(Cur, w, key, value, w))

\* delete w[key] on the mutable wrapper of x
DeleteReactive ==
    \E w \in proxies, key \in DataKeys :
        /\ IsMutableWrapper(w)
        /\ ProxyTarget(w) = Obj(1)
        /\ Done("delete", w, key, Undef, Delete(Cur, w, key))

NextReadonly ==
    \/ ReadReadonly
    \/ WriteReadonly
    \/ DeleteReadonly
    \/ WriteReactive
    \/ DeleteReactive

SpecReadonly == InitReadonly /\ [][NextReadonly]_vars

----------------------------------------------------------------------------
(* Properties of the readonly wrappers *)

\* C12: a write or a delete through a readonly-variant wrapper, of any key,
\* leaves every raw object as it was, fires no trigger and returns true
C12_ReadonlyRejection ==
    [][(last'.op \in {"set", "delete"} /\ IsReadonlyWrapper(last'.this))
       => /\ heap' = heap
          /\ triggered' = <<>>
          /\ last'.ret = Bool(TRUE)]_vars

\* a delete of an own key of x through a readonly wrapper has returned true
C12_Witness ==
    /\ last.op = "delete"
    /\ IsReadonlyWrapper(last.this)
    /\ hasOwn(Cur, last.this, last.key)
    /\ last.ret = Bool(TRUE)

----------------------------------------------------------------------------
(* Properties of the factories: values that are not wrapped, and the       *)
(* targets of the wrappers                                                 *)

FactoryMap(op) ==
    CASE op = "reactive" -> reactiveMap
      [] op = "shallowReactive" -> shallowReactiveMap
      [] op = "readonly" -> readonlyMap
      [] OTHER -> shallowReadonlyMap

\* a raw object the classifier rejects: skip-marked, non-extensible, or of a
\* kind that is neither a record, an array nor a keyed collection
Rejected(v) ==
    /\ v.t = "object"
    /\ \/ (SKIP \in DOMAIN heap[v.v[1]].props /\ Truthy(heap[v.v[1]].props[SKIP]))
       \/ ~heap[v.v[1]].extensible
       \/ heap[v.v[1]].kind \notin {"Object", "Array", "Map", "Set", "WeakMap", "WeakSet"}

C19_RawPointersNeverPointAtWrappers ==
    \A p \in proxies : ~IsWrapped(ProxyTarget(p))

\* C19, amended: the target of a mutable wrapper is a raw object; the target
\* of a readonly-variant wrapper is a raw object or a mutable wrapper, so
\* that the raw object is at most two raw pointers away
C19_RawPointersAtMostTwoDeep ==
    \A p \in proxies :
        /\ IsMutableWrapper(p) => ~IsWrapped(ProxyTarget(p))
        /\ IsWrapped(ProxyTarget(p)) =>
               /\ IsReadonlyWrapper(p)
               /\ IsMutableWrapper(ProxyTarget(p))
               /\ ~IsWrapped(ProxyTarget(ProxyTarget(p)))

\* a readonly wrapper over a mutable wrapper and a readonly wrapper over the
\* raw record both exist
C19_Witness ==
    /\ \E p \in proxies : IsReadonlyWrapper(p) /\ IsWrapped(ProxyTarget(p))
    /\ \E p \in proxies : IsReadonlyWrapper(p) /\ ProxyTarget(p) = Obj(1)

----------------------------------------------------------------------------
(* Writes, deletes and the length-altering methods on reactive(arr), arr   *)
(* an array that starts empty; y = {} is a record to store, raw or         *)
(* wrapped; the array can be made non-extensible behind the proxy          *)

MaxArr == 2

MaxDepth == 1

MutateHeap ==
    (1 :> [kind |-> "Array", extensible |-> TRUE, props |-> ("length" :> Num(0))])
    @@ (2 :> [kind |-> "Object", extensible |-> TRUE, props |-> [k \in {} |-> Undef]])

\* reactive(arr), reactive(y) and readonly(y) are built
MutateStore ==
    LET s1 == reactive(EmptyStore(MutateHeap), Obj(1)).s
        s2 == reactive(s1, Obj(2)).s
    IN  readonly(s2, Obj(2)).s

InitMutate == Start(MutateStore)

\* a number, and the record wrapped: readonly(y) is stored as it is,
\* reactive(y) is what a read of a stored y returns
MutateValues == {Num(1)} \cup WrappedY

Items(lo, hi) == UNION {[1..n -> MutateValues] : n \in lo..hi}

IsDeepMutable(w) == w.t = "proxy" /\ ProxyHandler(w) = "mutableHandlers"

\* the deep mutable wrapper of the array
ArrayWrappers == {w \in proxies : IsDeepMutable(w) /\ ProxyTarget(w) = Obj(1)}

LengthOf(h) == h[1].props["length"].v[1]

\* an operation that has come to its end, the array and the stack of saved
\* tracking states within the bounds
DoneWithin(op, this, key, arg, r) ==
    /\ LengthOf(r.s.heap) <= MaxArr
    /\ Len(r.s.trackStack) <= MaxDepth
    /\ Done(op, this, key, arg, r)

\* w[i] = value
WriteIndex ==
    \E w \in ArrayWrappers, i \in 0..(MaxArr - 1), value \in MutateValues :
        DoneWithin("set", w, IndexKey(i), value, Set(Cur, w, IndexKey(i), value, w))

\* w.length = n
WriteLength ==
    \E w \in ArrayWrappers, n \in 0..MaxArr :
        DoneWithin("set", w, "length", Num(n), Set(Cur, w, "length", Num(n), w))

\* delete w[key]
DeleteKey ==
    \E w \in ArrayWrappers, key \in {IndexKey(i) : i \in 0..(MaxArr - 1)} \cup {"length"} :
        DoneWithin("delete", w, key, Undef, Delete(Cur, w, key))

\* w.length
ReadLength ==
    \E w \in ArrayWrappers :
        DoneWithin("get", w, "length", w, Get(Cur, w, "length", w))

\* w[key](...): the get trap resolves the method, then the method runs with
\* w as this
CallMutator(w, key, args) ==
    LET g == Get(Cur, w, key, w)
    IN  /\ g.ret = Fn(key)
        /\ DoneWithin(key, w, "", args, mutatorInstrumentation(key, g.s, w, args))

Push ==
    \E w \in ArrayWrappers, items \in Items(1, 2) :
        CallMutator(w, "push", CallArgs(0, 0, items))

Pop == \E w \in ArrayWrappers : CallMutator(w, "pop", CallArgs(0, 0, <<>>))

Shift == \E w \in ArrayWrappers : CallMutator(w, "shift", CallArgs(0, 0, <<>>))

Unshift ==
    \E w \in ArrayWrappers, items \in Items(0, 1) :
        CallMutator(w, "unshift", CallArgs(0, 0, items))

Splice ==
    \E w \in ArrayWrappers, start \in 0..1, deleteCount \in 0..2,
       items \in Items(0, 1) :
        CallMutator(w, "splice", CallArgs(start, deleteCount, items))

\* Object.preventExtensions(arr), on the raw array
PreventExtensions ==
    /\ heap[1].extensible
    /\ heap' = [heap EXCEPT ![1].extensible = FALSE]
    /\ tracked' = <<>>
    /\ triggered' = <<>>
    /\ shims' = <<>>
    /\ last' = Call("preventExtensions", Undef, "", Obj(1), Obj(1))
    /\ UNCHANGED <<proxies, reactiveMap, shallowReactiveMap, readonlyMap,
                   shallowReadonlyMap, shouldTrack, trackStack, effects>>

NextMutate ==
    \/ WriteIndex
    \/ WriteLength
    \/ DeleteKey
    \/ ReadLength
    \/ Push
    \/ Pop
    \/ Shift
    \/ Unshift
    \/ Splice

SpecMutate == InitMutate /\ [][NextMutate]_vars

\* the same, on an array that can be made non-extensible
NextFail ==
    \/ NextMutate
    \/ PreventExtensions

SpecFail == InitMutate /\ [][NextFail]_vars

----------------------------------------------------------------------------
(* Properties of the writes and of the length-altering methods *)

\* the form in which createSetter stores and reports a value
StoredForm(v) ==
    IF IsWrapped(v) /\ ~IsReadonlyWrapper(v) /\ ~HandlerIsShallow(ProxyHandler(v))
    THEN toRaw(Cur, v) ELSE v

\* C11 as stated: a call of push, pop, shift, unshift or splice records no
\* dependency on length, and a direct read of w.length, before or after
\* such a call, records the dependency
C11_SuppressedMutation ==
    /\ last.op \in MutatorMethods =>
           \A i \in DOMAIN tracked : tracked[i].key # "length"
    /\ (last.op = "get" /\ last.key = "length") =>
           tracked = <<[target |-> Obj(1), type |-> "get", key |-> "length"]>>

\* C15 as stated: a write or a delete fires a trigger only if the write or
\* the delete on the raw object succeeded
C15_NoPartialFailure ==
    (last.op \in {"set", "delete"} /\ triggered # <<>>) => last.ret = Bool(TRUE)

\* C16 as stated: a write w[i] = v on an array of length len fires exactly
\* one ADD when i >= len, and when i < len one SET if v differs from the
\* value held and nothing otherwise; a write of another key goes by own-key
\* membership
C16_ArrayAddSet ==
    [][(last'.op = "set" /\ IsDeepMutable(last'.this))
       => LET key == last'.key
              old == OwnGet(Cur, Obj(1), key)
              hadKey == IF isIntegerKey(key) THEN Number(key) < LengthOf(heap)
                        ELSE hasOwn(Cur, Obj(1), key)
          IN  IF ~hadKey
              THEN /\ Len(triggered') = 1
                   /\ triggered'[1].type = "add"
                   /\ triggered'[1].key = key
              ELSE IF hasChanged(last'.arg, old)
              THEN /\ Len(triggered') = 1
                   /\ triggered'[1].type = "set"
                   /\ triggered'[1].key = key
              ELSE triggered' = <<>>]_vars

\* C16, amended: the value written and the value held are compared in the
\* form in which they are stored: both in raw form, unless the value written
\* is a readonly wrapper, which is stored and compared as it is
C16_ArrayAddSetStored ==
    [][(last'.op = "set" /\ IsDeepMutable(last'.this))
       => LET key == last'.key
              unwrap == ~IsReadonlyWrapper(last'.arg)
              val == StoredForm(last'.arg)
              old == IF unwrap THEN toRaw(Cur, OwnGet(Cur, Obj(1), key))
                     ELSE OwnGet(Cur, Obj(1), key)
              hadKey == IF isIntegerKey(key) THEN Number(key) < LengthOf(heap)
                        ELSE hasOwn(Cur, Obj(1), key)
          IN  IF ~hadKey
              THEN triggered' = <<TriggerCall(Obj(1), "add", key, val, Undef)>>
              ELSE IF hasChanged(val, old)
              THEN triggered' = <<TriggerCall(Obj(1), "set", key, val, old)>>
              ELSE triggered' = <<>>]_vars

\* an index below the length that the array does not hold has been written:
\* one SET, the old value undefined
C16_Witness ==
    /\ last.op = "set"
    /\ isIntegerKey(last.key)
    /\ Len(triggered) = 1
    /\ triggered[1].type = "set"
    /\ triggered[1].oldValue = Undef

\* C18: no property of a raw object holds a wrapper that is neither
\* shallow-marked nor readonly-marked
C18_NoWrapperInRawStorage ==
    \A o \in DOMAIN heap : \A k \in DOMAIN heap[o].props :
        LET v == heap[o].props[k]
        IN  IsWrapped(v) =>
                (IsReadonlyWrapper(v) \/ HandlerIsShallow(ProxyHandler(v)))

\* push, unshift or splice was given reactive(y), and the array holds y
C18_Witness ==
    /\ last.op \in {"push", "unshift", "splice"}
    /\ \E j \in DOMAIN last.arg.items : IsDeepMutable(last.arg.items[j])
    /\ \E k \in DOMAIN heap[1].props : heap[1].props[k] = Obj(2)

----------------------------------------------------------------------------
(* Nested calls of the length-altering methods: two arrays, and reader     *)
(* contexts that depend on an array and call push or pop on a wrapper;     *)
(* trigger re-runs them while the outer method is still running            *)

NestHeap ==
    (1 :> [kind |-> "Array", extensible |-> TRUE, props |-> ("length" :> Num(0))])
    @@ (2 :> [kind |-> "Array", extensible |-> TRUE, props |-> ("length" :> Num(0))])

\* reactive(arr1) and reactive(arr2) are built
NestStore == reactive(reactive(EmptyStore(NestHeap), Obj(1)).s, Obj(2)).s

InitNest == Start(NestStore)

DoneNest(op, this, key, arg, r) ==
    /\ \A o \in DOMAIN r.s.heap : r.s.heap[o].props["length"].v[1] <= MaxArr
    /\ Done(op, this, key, arg, r)

EffectArgs(key) == CallArgs(0, 0, IF key = "push" THEN <<Num(1)>> ELSE <<>>)

\* effect(fn): a reader context that depends on target, fn calling w[key]
Effect ==
    \E target \in RawObjects, w \in proxies, key \in {"push", "pop"} :
        /\ effects' = (target :> [this |-> w, key |-> key, args |-> EffectArgs(key)])
                      @@ effects
        /\ tracked' = <<>>
        /\ triggered' = <<>>
        /\ shims' = <<>>
        /\ last' = Call("effect", w, key, target, Undef)
        /\ UNCHANGED <<heap, proxies, reactiveMap, shallowReactiveMap, readonlyMap,
                       shallowReadonlyMap, shouldTrack, trackStack>>

\* w.push(1) and w.pop() called by user code
CallPushPop ==
    \E w \in proxies, key \in {"push", "pop"} :
        LET g == Get(Cur, w, key, w)
        IN  /\ g.ret = Fn(key)
            /\ DoneNest(key, w, "", EffectArgs(key),
                        mutatorInstrumentation(key, g.s, w, EffectArgs(key)))

\* w.length read by user code
ReadLengthOf ==
    \E w \in proxies : DoneNest("get", w, "length", w, Get(Cur, w, "length", w))

NextNest ==
    \/ Effect
    \/ CallPushPop
    \/ ReadLengthOf

SpecNest == InitNest /\ [][NextNest]_vars

\* C14: every call of an instrumented method, nested in another or not,
\* returns with the tracking state it was entered with, so that nothing is
\* recorded in what is left of the outer call; once the outermost call has
\* returned the tracking state is the one before it
C14_NestedSuppression ==
    [][last'.op \in MutatorMethods
       => /\ \A i \in DOMAIN shims' :
                 shims'[i].exit # "throws" => shims'[i].exit = shims'[i].entry
          /\ tracked' = <<>>
          /\ last'.ret # Throws =>
                 (shouldTrack' = shouldTrack /\ trackStack' = trackStack)]_vars

\* calls have run nested in the outermost one, entered and left with
\* tracking off
C14_Witness ==
    /\ last.op \in MutatorMethods
    /\ Len(shims) >= 3
    /\ \E i \in DOMAIN shims : shims[i].entry = "off" /\ shims[i].exit = "off"
    /\ shims[Len(shims)].entry = "on"
    /\ shouldTrack

====
